---- MODULE Spec2Model ----
(***************************************************************************)
(* A model of the demonstration web service and of its arithmetic module.  *)
(*                                                                         *)
(*   calc.py                      add, subtract, multiply, divide          *)
(*   app/routes/user_routes.py    the in-memory user store and handlers    *)
(*   app/routes/product_routes.py the in-memory product list and handlers  *)
(*   app/__init__.py              create_app                               *)
(*                                                                         *)
(* The stores are module-level objects of the two route modules: there is  *)
(* one of each per process, whatever the number of Flask applications.     *)
(***************************************************************************)
EXTENDS Integers, Sequences, FiniteSets, TLC

VARIABLES
    call,            \* calc.py: the last call made, [fn, a, b]
    out,             \* calc.py: the outcome of that call
    _users,          \* user_routes._users: id -> user
    _next_user_id,   \* user_routes._next_user_id
    products,        \* product_routes.products: a list of products
    apps,            \* per Flask app returned by create_app(): has it served a write?
    req,             \* the last HTTP request served
    resp,            \* its response
    issued,          \* what the clients hold of their 201 responses of create_user:
                     \* the id received, with the name and email sent
    handlers,        \* the create_user requests served by concurrent threads: for
                     \* each its position in create_user, its locals and response
    overlapped,      \* has a create_user request started while another was running?
    callers,         \* calc.py called by concurrent callers: for each its call,
                     \* its position and the outcome it received
    frames           \* calc.py: the parameters a, b of the calls in progress

calcVars == <<call, out>>
storeVars == <<_users, _next_user_id, products>>
httpVars == <<apps, req, resp, issued>>
threadVars == <<handlers, overlapped, callers, frames>>
vars == <<call, out, _users, _next_user_id, products, apps, req, resp, issued,
          handlers, overlapped, callers, frames>>

-----------------------------------------------------------------------------
(* Bounds of the model.                                                    *)

\* operands of the arithmetic functions range over -MaxOperand..MaxOperand
MaxOperand == 3
\* at most MaxNewUsers users are created on top of the seed users
MaxNewUsers == 2
\* at most MaxNewProducts products are created on top of the seed products
MaxNewProducts == 1
\* at most MaxApps applications are made by create_app()
MaxApps == 2
\* MaxClients create_user requests are served by concurrent threads
MaxClients == 2
\* MaxCallers threads call the arithmetic functions concurrently
MaxCallers == 2

-----------------------------------------------------------------------------
(* calc.py                                                                 *)

Operands == (0 - MaxOperand)..MaxOperand

Abs(x) == IF x < 0 THEN 0 - x ELSE x

RECURSIVE Gcd(_, _)
Gcd(x, y) == IF y = 0 THEN x ELSE Gcd(y, x % y)

\* A Python number is kept as the fraction num/den in lowest terms, den > 0,
\* with its Python type: int results have den = 1.
Returns(type, n, d) ==
    [kind |-> "return", type |-> type, num |-> n, den |-> d, exc |-> "", msg |-> ""]

Raises(exc, msg) ==
    [kind |-> "raise", type |-> "", num |-> 0, den |-> 1, exc |-> exc, msg |-> msg]

\* Python's a / b on ints, b # 0: the quotient as a float
TrueDiv(a, b) ==
    LET g == Gcd(Abs(a), Abs(b))
        s == IF b < 0 THEN 0 - 1 ELSE 1
    IN  Returns("float", (s * a) \div g, (s * b) \div g)

add(a, b) == Returns("int", a + b, 1)

subtract_swapped(a, b) == Returns("int", b - a, 1)

subtract(a, b) == Returns("int", a - b, 1)

multiply_one_sided(a, b) ==
    IF a < 0
    THEN Raises("ValueError", "Negative values are not allowed.")
    ELSE Returns("int", a * b, 1)

multiply_rejects_zero(a, b) ==
    IF a <= 0 \/ b <= 0
    THEN Raises("ValueError", "Negative values are not allowed.")
    ELSE Returns("int", a * b, 1)

multiply(a, b) ==
    IF a < 0 \/ b < 0
    THEN Raises("ValueError", "Negative values are not allowed.")
    ELSE Returns("int", a * b, 1)

divide_floor(a, b) ==
    IF b = 0
    THEN Raises("ValueError", "Cannot divide by zero.")
    ELSE Returns("int", a \div b, 1)

divide(a, b) ==
    IF b = 0
    THEN Raises("ValueError", "Cannot divide by zero.")
    ELSE TrueDiv(a, b)

NoCall == [fn |-> "none", a |-> 0, b |-> 0]
NoOutcome == [kind |-> "none", type |-> "", num |-> 0, den |-> 1, exc |-> "", msg |-> ""]

CallAdd(a, b) ==
    /\ call' = [fn |-> "add", a |-> a, b |-> b]
    /\ out' = add(a, b)
    /\ UNCHANGED <<storeVars, httpVars, threadVars>>

CallSubtract(a, b) ==
    /\ call' = [fn |-> "subtract", a |-> a, b |-> b]
    /\ out' = subtract(a, b)
    /\ UNCHANGED <<storeVars, httpVars, threadVars>>

CallMultiply(a, b) ==
    /\ call' = [fn |-> "multiply", a |-> a, b |-> b]
    /\ out' = multiply(a, b)
    /\ UNCHANGED <<storeVars, httpVars, threadVars>>

CallDivide(a, b) ==
    /\ call' = [fn |-> "divide", a |-> a, b |-> b]
    /\ out' = divide(a, b)
    /\ UNCHANGED <<storeVars, httpVars, threadVars>>

-----------------------------------------------------------------------------
(* calc.py called by several threads: a call binds its arguments to the    *)
(* parameters a, b of a frame of its own, and its body reads them there    *)

Callers == 1..MaxCallers

\* the operands of the concurrent calls: negative, zero and positive
FewOperands == {0 - 1, 0, 2}

Functions == {"add", "subtract", "multiply", "divide"}

\* the body of `fn` evaluated on a and b
Apply(fn, a, b) ==
    CASE fn = "add" -> add(a, b)
      [] fn = "subtract" -> subtract(a, b)
      [] fn = "multiply" -> multiply(a, b)
      [] fn = "divide" -> divide(a, b)

NotCalling == [fn |-> "none", a |-> 0, b |-> 0, pc |-> "idle", out |-> NoOutcome]
NoFrame == [a |-> 0, b |-> 0]

\* a and b as names of one module-level frame that every call binds
Frame_shared(t) == 1

\* def add(a, b): a and b are locals of the call, one frame per call
Frame(t) == t

\* the call fn(a, b) by thread t: the arguments are bound to the parameters
Enter(t, fn, a, b) ==
    /\ callers[t].pc = "idle"
    /\ callers' = [callers EXCEPT ![t] =
           [fn |-> fn, a |-> a, b |-> b, pc |-> "entered", out |-> NoOutcome]]
    /\ frames' = [frames EXCEPT ![Frame(t)] = [a |-> a, b |-> b]]
    /\ UNCHANGED <<calcVars, storeVars, httpVars, handlers, overlapped>>

\* the body of the function runs on its parameters and returns or raises
Run(t) ==
    /\ callers[t].pc = "entered"
    /\ callers' = [callers EXCEPT ![t] =
           [@ EXCEPT !.pc = "returned",
                     !.out = Apply(callers[t].fn, frames[Frame(t)].a, frames[Frame(t)].b)]]
    /\ UNCHANGED <<calcVars, storeVars, httpVars, handlers, overlapped, frames>>

-----------------------------------------------------------------------------
(* JSON values and request bodies                                          *)

\* A JSON number is kept in hundredths (999.99 is Num(99999), 10 is Num(1000)).
Num(h) == [t |-> "number", n |-> h, s |-> ""]
Str(s) == [t |-> "string", n |-> 0, s |-> s]

EmptyDict == [k \in {} |-> Num(0)]

\* What request.get_json() hands the handler: None (no body, or the JSON null),
\* a dict (a JSON object), or a JSON number.
None == [kind |-> "None", dict |-> EmptyDict]
Dict(d) == [kind |-> "dict", dict |-> d]
Number == [kind |-> "number", dict |-> EmptyDict]

\* Python truthiness of a body: None and the empty dict are falsy; the number
\* sent by the requests of this model is non-zero.
Falsy(data) == data.kind = "None" \/ (data.kind = "dict" /\ DOMAIN data.dict = {})

\* `key in data` is defined on a dict; on None or a number it raises TypeError.
IsContainer(data) == data.kind = "dict"
Has(data, key) == key \in DOMAIN data.dict

\* the dicts over a subset of `keys`, the value of key k drawn from vals[k]
Dicts(keys, vals) ==
    UNION { { d \in [K -> UNION {vals[k] : k \in keys}] : \A k \in K : d[k] \in vals[k] }
            : K \in SUBSET keys }

\* the bodies of the requests to /api/users/: every subset of the keys
UserVals ==
    [name |-> {Str("Ann"), Str("Bob")},
     email |-> {Str("ann@example.com"), Str("bob@example.com")}]
UserBodies == {None, Number} \cup {Dict(d) : d \in Dicts({"name", "email"}, UserVals)}

\* the bodies of the requests to /api/products/: every subset of the keys, with
\* a price that is positive or negative
ProductVals ==
    [id |-> {Num(900)}, name |-> {Str("Gadget")},
     price |-> {Num(1999), Num(0 - 500)}, stock |-> {Num(700)}]
ProductBodies ==
    {None, Number} \cup {Dict(d) : d \in Dicts({"id", "name", "price", "stock"}, ProductVals)}

\* the same bodies with one value per key, for the specifications of the whole
\* service
FewUserVals == [name |-> {Str("Ann")}, email |-> {Str("ann@example.com")}]
FewUserBodies == {None, Number} \cup {Dict(d) : d \in Dicts({"name", "email"}, FewUserVals)}

FewProductVals == [name |-> {Str("Gadget")}, price |-> {Num(1999)}, stock |-> {Num(700)}]
FewProductBodies ==
    {None, Number} \cup {Dict(d) : d \in Dicts({"name", "price", "stock"}, FewProductVals)}

-----------------------------------------------------------------------------
(* Responses                                                               *)

Response(status, json) == [status |-> status, json |-> json]
Error(msg) == [error |-> msg]
\* an exception that escapes the handler: Flask answers 500
Unhandled(exc) == Response(500, [exception |-> exc])

NoRequest == [app |-> 0, op |-> "none", id |-> 0, data |-> None]
NoResponse == Response(0, Error(""))
Request(app, op, id, data) == [app |-> app, op |-> op, id |-> id, data |-> data]

\* the request `r` is served by application `app` with response `rsp`
Serve(r, rsp, write) ==
    /\ req' = r
    /\ resp' = rsp
    /\ apps' = [apps EXCEPT ![r.app] = @ \/ write]
    /\ issued' = IF r.op = "create_user" /\ rsp.status = 201
                 THEN issued \cup {[id |-> rsp.json.id, name |-> r.data.dict["name"],
                                    email |-> r.data.dict["email"]]}
                 ELSE issued
    /\ UNCHANGED <<calcVars, threadVars>>

-----------------------------------------------------------------------------
(* app/routes/user_routes.py                                               *)

SeedUsers ==
    [i \in {1, 2} |->
        IF i = 1
        THEN [id |-> 1, name |-> Str("John Doe"), email |-> Str("john@example.com")]
        ELSE [id |-> 2, name |-> Str("Jane Smith"), email |-> Str("jane@example.com")]]

\* the ids a request may name: those of the fullest store, and one beyond it
UserIds == 1..(Cardinality(DOMAIN SeedUsers) + MaxNewUsers + 1)

\* list(d.values()): a dict lists its values in insertion order, which for _users
\* is the order of the keys
Values(d) ==
    LET Rank(k) == Cardinality({j \in DOMAIN d : j <= k})
    IN  [i \in 1..Cardinality(DOMAIN d) |-> d[CHOOSE k \in DOMAIN d : Rank(k) = i]]

\* _next_user_id += 1
Increment_skipped(n) == n

Increment(n) == n + 1

\* d[k] = v on a dict
SetItem(d, k, v) == [j \in DOMAIN d \cup {k} |-> IF j = k THEN v ELSE d[j]]

get_users(app) ==
    /\ Serve(Request(app, "get_users", 0, None), Response(200, Values(_users)), FALSE)
    /\ UNCHANGED storeVars

get_user(app, user_id) ==
    /\ Serve(Request(app, "get_user", user_id, None),
             IF user_id \in DOMAIN _users
             THEN Response(200, _users[user_id])
             ELSE Response(404, Error("User not found")),
             FALSE)
    /\ UNCHANGED storeVars

\* create_user taking the id before it looks at the body
create_user_takes_id_first(app, data) ==
    LET r == Request(app, "create_user", 0, data)
        rejected == Response(400, Error("Name and email are required"))
    IN  IF Falsy(data) \/ (IsContainer(data) /\ (~Has(data, "name") \/ ~Has(data, "email")))
        THEN /\ Cardinality(DOMAIN _users) < Cardinality(DOMAIN SeedUsers) + MaxNewUsers
             /\ _next_user_id' = _next_user_id + 1
             /\ Serve(r, rejected, TRUE)
             /\ UNCHANGED <<_users, products>>
        ELSE IF ~IsContainer(data)
        THEN /\ Serve(r, Unhandled("TypeError"), TRUE)
             /\ UNCHANGED storeVars
        ELSE LET new_user == [id |-> _next_user_id, name |-> data.dict["name"],
                              email |-> data.dict["email"]]
             IN  /\ Cardinality(DOMAIN _users) < Cardinality(DOMAIN SeedUsers) + MaxNewUsers
                 /\ _users' = SetItem(_users, _next_user_id, new_user)
                 /\ _next_user_id' = _next_user_id + 1
                 /\ Serve(r, Response(201, new_user), TRUE)
                 /\ UNCHANGED products

create_user(app, data) ==
    LET r == Request(app, "create_user", 0, data)
    IN  IF Falsy(data)
        THEN /\ Serve(r, Response(400, Error("Name and email are required")), TRUE)
             /\ UNCHANGED storeVars
        ELSE IF ~IsContainer(data)
        THEN /\ Serve(r, Unhandled("TypeError"), TRUE)
             /\ UNCHANGED storeVars
        ELSE IF ~Has(data, "name") \/ ~Has(data, "email")
        THEN /\ Serve(r, Response(400, Error("Name and email are required")), TRUE)
             /\ UNCHANGED storeVars
        ELSE LET new_user == [id |-> _next_user_id, name |-> data.dict["name"],
                              email |-> data.dict["email"]]
             IN  /\ Cardinality(DOMAIN _users) < Cardinality(DOMAIN SeedUsers) + MaxNewUsers
                 /\ _users' = SetItem(_users, _next_user_id, new_user)
                 /\ _next_user_id' = Increment(_next_user_id)
                 /\ Serve(r, Response(201, new_user), TRUE)
                 /\ UNCHANGED products

-----------------------------------------------------------------------------
(* create_user served by several threads of one application: the steps of  *)
(* its statements interleave                                               *)

Clients == 1..MaxClients

NoUser == [id |-> 0, name |-> Str(""), email |-> Str("")]

\* a thread that has no request yet
Idle == [pc |-> "idle", data |-> None, new_user |-> NoUser, loaded |-> 0,
         resp |-> NoResponse]

Running(t) == handlers[t].pc \notin {"idle", "done"}

\* the bodies of the concurrent requests
RacingVals == [name |-> {Str("Ann"), Str("Bob")}, email |-> {Str("ann@example.com")}]
RacingBodies == {Dict(d) : d \in Dicts({"name", "email"}, RacingVals)}

\* data = request.get_json() and the presence check: they read the request alone
Receive(t, app, data) ==
    /\ handlers[t].pc = "idle"
    /\ apps' = [apps EXCEPT ![app] = TRUE]
    /\ IF Falsy(data) \/ ~Has(data, "name") \/ ~Has(data, "email")
       THEN /\ handlers' = [handlers EXCEPT ![t] =
                   [@ EXCEPT !.pc = "done", !.data = data,
                             !.resp = Response(400, Error("Name and email are required"))]]
            /\ UNCHANGED overlapped
       ELSE /\ handlers' = [handlers EXCEPT ![t] = [@ EXCEPT !.pc = "build", !.data = data]]
            /\ overlapped' = (overlapped \/ \E u \in Clients : Running(u))
    /\ UNCHANGED <<calcVars, storeVars, req, resp, issued, callers, frames>>

\* new_user = {'id': _next_user_id, 'name': data['name'], 'email': data['email']}
BuildUser(t) ==
    /\ handlers[t].pc = "build"
    /\ handlers' = [handlers EXCEPT ![t] =
           [@ EXCEPT !.pc = "store",
                     !.new_user = [id |-> _next_user_id,
                                   name |-> handlers[t].data.dict["name"],
                                   email |-> handlers[t].data.dict["email"]]]]
    /\ UNCHANGED <<calcVars, storeVars, httpVars, overlapped, callers, frames>>

\* _users[_next_user_id] = new_user
StoreUser(t) ==
    /\ handlers[t].pc = "store"
    /\ _users' = SetItem(_users, _next_user_id, handlers[t].new_user)
    /\ handlers' = [handlers EXCEPT ![t] = [@ EXCEPT !.pc = "load"]]
    /\ UNCHANGED <<calcVars, _next_user_id, products, httpVars, overlapped, callers, frames>>

\* _next_user_id += 1, its read of the global
LoadNextId(t) ==
    /\ handlers[t].pc = "load"
    /\ handlers' = [handlers EXCEPT ![t] = [@ EXCEPT !.pc = "add", !.loaded = _next_user_id]]
    /\ UNCHANGED <<calcVars, storeVars, httpVars, overlapped, callers, frames>>

\* _next_user_id += 1, its write of the global; return jsonify(new_user), 201
StoreNextId(t) ==
    /\ handlers[t].pc = "add"
    /\ _next_user_id' = Increment(handlers[t].loaded)
    /\ handlers' = [handlers EXCEPT ![t] =
           [@ EXCEPT !.pc = "done", !.resp = Response(201, handlers[t].new_user)]]
    /\ UNCHANGED <<calcVars, _users, products, httpVars, overlapped, callers, frames>>

-----------------------------------------------------------------------------
(* app/routes/product_routes.py                                            *)

SeedProducts ==
    << [id |-> 1, name |-> Str("Laptop"), price |-> Num(99999), stock |-> Num(1000)],
       [id |-> 2, name |-> Str("Mouse"), price |-> Num(2999), stock |-> Num(5000)],
       [id |-> 3, name |-> Str("Keyboard"), price |-> Num(7999), stock |-> Num(2500)] >>

\* the ids a request may name: seed product 1, the id of every product that can
\* be created, and one beyond them
ProductIds == {1} \cup (Len(SeedProducts) + 1)..(Len(SeedProducts) + MaxNewProducts + 1)

\* create_product numbering from the smallest id in the list
Max_smallest(S) == CHOOSE m \in S : \A x \in S : m <= x

Max(S) == CHOOSE m \in S : \A x \in S : x <= m

\* next((i for i, p in enumerate(products) if p['id'] == product_id), None):
\* the position of the first product with that id, 0 for None
Find(product_id) ==
    LET hits == {i \in 1..Len(products) : products[i].id = product_id}
    IN  IF hits = {} THEN 0 ELSE CHOOSE i \in hits : \A j \in hits : i <= j

get_products(app) ==
    /\ Serve(Request(app, "get_products", 0, None), Response(200, products), FALSE)
    /\ UNCHANGED storeVars

get_product(app, product_id) ==
    /\ Serve(Request(app, "get_product", product_id, None),
             IF Find(product_id) # 0
             THEN Response(200, products[Find(product_id)])
             ELSE Response(404, Error("Product not found")),
             FALSE)
    /\ UNCHANGED storeVars

create_product(app, data) ==
    LET r == Request(app, "create_product", 0, data)
    IN  IF Falsy(data)
        THEN /\ Serve(r, Response(400, Error("Name and price are required")), TRUE)
             /\ UNCHANGED storeVars
        ELSE IF ~IsContainer(data)
        THEN /\ Serve(r, Unhandled("TypeError"), TRUE)
             /\ UNCHANGED storeVars
        ELSE IF ~Has(data, "name") \/ ~Has(data, "price")
        THEN /\ Serve(r, Response(400, Error("Name and price are required")), TRUE)
             /\ UNCHANGED storeVars
        ELSE IF Len(products) = 0
        THEN \* max() of an empty sequence
             /\ Serve(r, Unhandled("ValueError"), TRUE)
             /\ UNCHANGED storeVars
        ELSE LET new_product ==
                     [id |-> Max({products[i].id : i \in 1..Len(products)}) + 1,
                      name |-> data.dict["name"],
                      price |-> data.dict["price"],
                      stock |-> IF Has(data, "stock") THEN data.dict["stock"] ELSE Num(0)]
             IN  /\ Len(products) < Len(SeedProducts) + MaxNewProducts
                 /\ products' = Append(products, new_product)
                 /\ Serve(r, Response(201, new_product), TRUE)
                 /\ UNCHANGED <<_users, _next_user_id>>

\* update_product replacing the product by the body, absent fields reset
Updated_replaces(product, data) ==
    [id |-> product.id,
     name |-> IF Has(data, "name") THEN data.dict["name"] ELSE Str(""),
     price |-> IF Has(data, "price") THEN data.dict["price"] ELSE Num(0),
     stock |-> IF Has(data, "stock") THEN data.dict["stock"] ELSE Num(0)]

\* update_product writing the body's price to the stock
Updated_price_as_stock(product, data) ==
    [id |-> product.id,
     name |-> IF Has(data, "name") THEN data.dict["name"] ELSE product.name,
     price |-> product.price,
     stock |-> IF Has(data, "price") THEN data.dict["price"]
               ELSE IF Has(data, "stock") THEN data.dict["stock"] ELSE product.stock]

\* the three conditional assignments of update_product
Updated(product, data) ==
    [id |-> product.id,
     name |-> IF Has(data, "name") THEN data.dict["name"] ELSE product.name,
     price |-> IF Has(data, "price") THEN data.dict["price"] ELSE product.price,
     stock |-> IF Has(data, "stock") THEN data.dict["stock"] ELSE product.stock]

\* update_product reading the body before it looks the product up
update_product_reads_body_first(app, product_id, data) ==
    LET r == Request(app, "update_product", product_id, data)
        i == Find(product_id)
    IN  IF ~IsContainer(data)
        THEN /\ Serve(r, Unhandled("TypeError"), TRUE)
             /\ UNCHANGED storeVars
        ELSE IF i = 0
        THEN /\ Serve(r, Response(404, Error("Product not found")), TRUE)
             /\ UNCHANGED storeVars
        ELSE /\ products' = [products EXCEPT ![i] = Updated(@, data)]
             /\ Serve(r, Response(200, Updated(products[i], data)), TRUE)
             /\ UNCHANGED <<_users, _next_user_id>>

update_product(app, product_id, data) ==
    LET r == Request(app, "update_product", product_id, data)
        i == Find(product_id)
    IN  IF i = 0
        THEN /\ Serve(r, Response(404, Error("Product not found")), TRUE)
             /\ UNCHANGED storeVars
        ELSE IF ~IsContainer(data)
        THEN \* 'name' in data, data being None or a number
             /\ Serve(r, Unhandled("TypeError"), TRUE)
             /\ UNCHANGED storeVars
        ELSE /\ products' = [products EXCEPT ![i] = Updated(@, data)]
             /\ Serve(r, Response(200, Updated(products[i], data)), TRUE)
             /\ UNCHANGED <<_users, _next_user_id>>

-----------------------------------------------------------------------------
(* app/__init__.py                                                         *)

\* create_app() makes a Flask application and registers the two module-level
\* blueprints on it: the stores are not touched.
create_app(limit) ==
    /\ Len(apps) < limit
    /\ apps' = Append(apps, FALSE)
    /\ UNCHANGED <<calcVars, storeVars, req, resp, issued, threadVars>>

-----------------------------------------------------------------------------
(* Specifications                                                          *)

\* the process after the import of the modules: no call made, the stores as
\* the route modules define them, no application made yet
Init ==
    /\ call = NoCall
    /\ out = NoOutcome
    /\ _users = SeedUsers
    /\ _next_user_id = 3
    /\ products = SeedProducts
    /\ apps = << >>
    /\ req = NoRequest
    /\ resp = NoResponse
    /\ issued = {}
    /\ handlers = [t \in Clients |-> Idle]
    /\ overlapped = FALSE
    /\ callers = [t \in Callers |-> NotCalling]
    /\ frames = [t \in Callers |-> NoFrame]

Apps == 1..Len(apps)

Next ==
    \/ create_app(1)
    \/ \E app \in Apps : get_users(app)
    \/ \E app \in Apps, user_id \in UserIds : get_user(app, user_id)
    \/ \E app \in Apps, data \in FewUserBodies : create_user(app, data)
    \/ \E app \in Apps : get_products(app)
    \/ \E app \in Apps, product_id \in ProductIds : get_product(app, product_id)
    \/ \E app \in Apps, data \in FewProductBodies : create_product(app, data)
    \/ \E app \in Apps, product_id \in ProductIds, data \in FewProductBodies :
           update_product(app, product_id, data)

\* the web service: one application, its requests served one at a time
Spec == Init /\ [][Next]_vars

NextUsers ==
    \/ create_app(1)
    \/ \E app \in Apps : get_users(app)
    \/ \E app \in Apps, user_id \in UserIds : get_user(app, user_id)
    \/ \E app \in Apps, data \in UserBodies : create_user(app, data)

\* the user routes of one application
SpecUsers == Init /\ [][NextUsers]_vars

NextProducts ==
    \/ create_app(1)
    \/ \E app \in Apps : get_products(app)
    \/ \E app \in Apps, product_id \in ProductIds : get_product(app, product_id)
    \/ \E app \in Apps, data \in ProductBodies : create_product(app, data)
    \/ \E app \in Apps, product_id \in ProductIds, data \in ProductBodies :
           update_product(app, product_id, data)

\* the product routes of one application
SpecProducts == Init /\ [][NextProducts]_vars

NextApps ==
    \/ create_app(MaxApps)
    \/ \E app \in Apps : get_users(app)
    \/ \E app \in Apps, user_id \in UserIds : get_user(app, user_id)
    \/ \E app \in Apps, data \in FewUserBodies : create_user(app, data)
    \/ \E app \in Apps : get_products(app)
    \/ \E app \in Apps, product_id \in ProductIds : get_product(app, product_id)
    \/ \E app \in Apps, data \in FewProductBodies : create_product(app, data)
    \/ \E app \in Apps, product_id \in ProductIds, data \in FewProductBodies :
           update_product(app, product_id, data)

\* several applications made in one process
SpecApps == Init /\ [][NextApps]_vars

NextUsersThreaded ==
    \/ create_app(1)
    \/ \E t \in Clients, app \in Apps, data \in RacingBodies : Receive(t, app, data)
    \/ \E t \in Clients : BuildUser(t)
    \/ \E t \in Clients : StoreUser(t)
    \/ \E t \in Clients : LoadNextId(t)
    \/ \E t \in Clients : StoreNextId(t)

\* create_user requests of one application served by concurrent threads
SpecUsersThreaded == Init /\ [][NextUsersThreaded]_vars

NextCalc ==
    \/ \E a \in Operands, b \in Operands : CallAdd(a, b)
    \/ \E a \in Operands, b \in Operands : CallSubtract(a, b)
    \/ \E a \in Operands, b \in Operands : CallMultiply(a, b)
    \/ \E a \in Operands, b \in Operands : CallDivide(a, b)

\* the arithmetic module, called with every pair of operands
SpecCalc == Init /\ [][NextCalc]_vars

NextCalcThreaded ==
    \/ \E t \in Callers, fn \in Functions, a \in FewOperands, b \in FewOperands :
           Enter(t, fn, a, b)
    \/ \E t \in Callers : Run(t)

\* the arithmetic module called by concurrent threads, their steps interleaved
SpecCalcThreaded == Init /\ [][NextCalcThreaded]_vars

-----------------------------------------------------------------------------
(* Properties of calc.py, checked under SpecCalc                           *)

NegativeValuesError == Raises("ValueError", "Negative values are not allowed.")
DivideByZeroError == Raises("ValueError", "Cannot divide by zero.")

\* C1: multiply(a, b) with a < 0 or b < 0 raises the error "Negative values are
\* not allowed." and returns no product, whatever the other operand is.
C1_MultiplyRejectsNegative ==
    (call.fn = "multiply" /\ (call.a < 0 \/ call.b < 0)) => out = NegativeValuesError

\* multiply(0, b) with b negative has raised
C1_Witness ==
    /\ call.fn = "multiply" /\ call.a = 0 /\ call.b < 0
    /\ out.kind = "raise"

C3_MultiplyNonNegative ==
    (call.fn = "multiply" /\ call.a >= 0 /\ call.b >= 0) =>
        out = Returns("int", call.a * call.b, 1)

\* multiply(0, 3) has returned 0
C3_Witness ==
    /\ call.fn = "multiply" /\ call.a = 0 /\ call.b = 3
    /\ out.kind = "return" /\ out.num = 0

-----------------------------------------------------------------------------
(* Properties of the user and product routes                               *)

\* C5: every user id returned by a 201 of create_user stays retrievable: the
\* user stored under it has that id and the name and email sent, and get_user
\* of it answers 200 with that user, whatever was requested in between.
\* (SpecUsers)
C5_CreatedUserRetrievable ==
    /\ \A u \in issued :
           /\ u.id \in DOMAIN _users
           /\ _users[u.id] = [id |-> u.id, name |-> u.name, email |-> u.email]
    /\ \A u \in issued :
           (req.op = "get_user" /\ req.id = u.id) =>
               resp = Response(200, [id |-> u.id, name |-> u.name, email |-> u.email])

\* two users were created, and get_user has just returned the first of them
C5_Witness ==
    /\ Cardinality(issued) = 2
    /\ req.op = "get_user" /\ req.id = 3 /\ resp.status = 200
    /\ \E u \in issued : u.id = 3 /\ resp.json.name = u.name /\ u.name = Str("Bob")
    /\ \E u \in issued : u.id = 4 /\ u.name = Str("Ann")

\* the fields of a product that update_product may write
Updatable == {"name", "price", "stock"}

\* C6: update_product of an existing product sets the fields among name, price
\* and stock that its body carries and keeps the others; the id stays, also
\* with an 'id' in the body; the other products and the length of the list are
\* unchanged. (SpecProducts)
C6_UpdateFrame ==
    [][ (req'.op = "update_product" /\ Find(req'.id) # 0) =>
            LET i == Find(req'.id)
                data == req'.data
            IN  /\ Len(products') = Len(products)
                /\ \A j \in 1..Len(products) : j # i => products'[j] = products[j]
                /\ products'[i].id = products[i].id
                /\ \A f \in Updatable :
                       products'[i][f] = IF IsContainer(data) /\ Has(data, f)
                                         THEN data.dict[f]
                                         ELSE products[i][f] ]_vars

\* product 1 was updated with a body of id and price only: the price is the
\* body's, the id, name and stock are the seed's
C6_Witness ==
    /\ req.op = "update_product" /\ req.id = 1 /\ resp.status = 200
    /\ req.data.kind = "dict" /\ DOMAIN req.data.dict = {"id", "price"}
    /\ products[1] = [id |-> 1, name |-> Str("Laptop"), price |-> req.data.dict["price"],
                      stock |-> Num(1000)]

\* C7: an application that has served no write request lists the seed users
\* and the seed products, whatever other applications of the process have
\* served. (SpecApps)
C7_FreshAppListsSeeds ==
    \A app \in Apps :
        ~apps[app] => Values(_users) = Values(SeedUsers) /\ products = SeedProducts

Required(op) == IF op = "create_user" THEN {"name", "email"} ELSE {"name", "price"}

\* the body is missing, or is an object without one of the required fields
LacksRequired(r) ==
    \/ r.data.kind = "None"
    \/ r.data.kind = "dict" /\ \E k \in Required(r.op) : ~Has(r.data, k)

C9_UnknownIdIs404 ==
    [][ /\ (req'.op = "get_user" /\ req'.id \notin DOMAIN _users) =>
               /\ resp' = Response(404, Error("User not found"))
               /\ UNCHANGED <<_users, _next_user_id, products>>
        /\ (req'.op \in {"get_product", "update_product"} /\ Find(req'.id) = 0) =>
               /\ resp' = Response(404, Error("Product not found"))
               /\ UNCHANGED <<_users, _next_user_id, products>> ]_vars

\* update_product of an id no product has, without a body, was answered 404
C9_Witness ==
    /\ req.op = "update_product" /\ req.data = None
    /\ Find(req.id) = 0 /\ resp.status = 404

ValidPrice(v) == v.t = "number" /\ v.n >= 0

PricesValid == \A i \in 1..Len(products) : ValidPrice(products[i].price)

ProductIdsOf(list) == {list[i].id : i \in 1..Len(list)}

\* C13: with requests served one at a time, the ids of the products are
\* pairwise distinct and the list is never empty, so that max() in
\* create_product is defined, and the id of a product just created is greater
\* than every id the list held before. (SpecProducts)
C13_ProductIdsDistinctAndGrowing ==
    /\ [](/\ Len(products) > 0
          /\ \A i, j \in 1..Len(products) : products[i].id = products[j].id => i = j)
    /\ [][ Len(products') # Len(products) =>
               /\ Len(products') = Len(products) + 1
               /\ \A i \in 1..Len(products) : products'[i] = products[i]
               /\ \A id \in ProductIdsOf(products) : products'[Len(products')].id > id ]_vars

\* a product was created and given id 4 after the seed ids 1, 2, 3, and was
\* then updated with a body carrying an 'id'
C13_Witness ==
    /\ Len(products) = Len(SeedProducts) + 1
    /\ ProductIdsOf(products) = {1, 2, 3, 4}
    /\ req.op = "update_product" /\ req.id = 4 /\ resp.status = 200
    /\ Has(req.data, "id")

\* the threads whose create_user request was answered 201
Created == {t \in Clients : handlers[t].pc = "done" /\ handlers[t].resp.status = 201}

IdOf(t) == handlers[t].resp.json.id

\* the ids given are distinct, every created user is stored as created, and
\* once no request is running the store has grown by the number of creations
CreationsKept ==
    /\ \A t, u \in Created : t # u => IdOf(t) # IdOf(u)
    /\ \A t \in Created :
           IdOf(t) \in DOMAIN _users /\ _users[IdOf(t)] = handlers[t].resp.json
    /\ (\A t \in Clients : ~Running(t)) =>
           Cardinality(DOMAIN _users) = Cardinality(DOMAIN SeedUsers) + Cardinality(Created)

\* C12 as claimed: under any interleaving of the steps of concurrent
\* create_user requests every 201 carries an id of its own, no stored user is
\* overwritten, and the store grows by the number of creations.
\* (SpecUsersThreaded)
C12_ConcurrentCreationsKept == CreationsKept

\* C12 as amended: the same, provided no create_user request starts while
\* another has passed its presence check and has not yet returned.
\* (SpecUsersThreaded)
C12_SerialCreationsKept == ~overlapped => CreationsKept

\* two requests were served one after the other and hold the ids 3 and 4
C12_Witness ==
    /\ ~overlapped
    /\ Created = {1, 2}
    /\ {IdOf(1), IdOf(2)} = {3, 4}
    /\ _next_user_id = 5

\* the threads whose call has returned or raised
Returned == {t \in Callers : callers[t].pc = "returned"}

\* C11: under any interleaving of concurrent calls each call ends in the
\* outcome the function gives for its arguments when run alone, so that calls
\* with equal arguments end alike (same value or same error); and the calls
\* leave the state of the process outside their own frames as it was.
\* (SpecCalcThreaded)
C11_CallsIndependent ==
    /\ \A t \in Returned :
           callers[t].out = Apply(callers[t].fn, callers[t].a, callers[t].b)
    /\ \A t, u \in Returned :
           (callers[t].fn = callers[u].fn /\ callers[t].a = callers[u].a
                /\ callers[t].b = callers[u].b) => callers[t].out = callers[u].out
    /\ <<_users, _next_user_id, products, call, out>>
           = <<SeedUsers, 3, SeedProducts, NoCall, NoOutcome>>

\* of two concurrent callers, one has had divide(2, 0) raise and the other
\* has had multiply(2, 2) return 4
C11_Witness ==
    /\ callers[1].pc = "returned" /\ callers[1].fn = "divide"
    /\ callers[1].a = 2 /\ callers[1].b = 0 /\ callers[1].out.kind = "raise"
    /\ callers[2].pc = "returned" /\ callers[2].fn = "multiply"
    /\ callers[2].a = 2 /\ callers[2].b = 2 /\ callers[2].out.num = 4

====
